---------------------------- MODULE Spec2Model ----------------------------
(***************************************************************************)
(* PhotoelectricSimulator (src/app.js): the physics evaluation, the        *)
(* 1000-sample measurement, the experiment ledger (experimentData), the    *)
(* I-V chart points, the data table and the CSV export.                    *)
(*                                                                         *)
(* Numbers are fixed point.  Units:                                        *)
(*   voltage            0.01 V       (voltage slider step)                 *)
(*   wavelength         1 nm         (wavelength slider step)              *)
(*   intensity          0.1 W/m^2    (intensity slider step)               *)
(*   area               0.01 cm^2    (area slider step)                    *)
(*   workFunction       0.01 eV      (two decimals in the materials table) *)
(*   energies, stopping potential     1e-6 eV / 1e-6 V                     *)
(*   currents           1e-9 uA                                            *)
(*   thresholdWavelength 1e18 nm     (see calculatePhysics)                *)
(*   Math.random()      0.01         (a draw u is 0..99, i.e. 0.00..0.99)  *)
(***************************************************************************)
EXTENDS Integers, Sequences, FiniteSets, TLC

VARIABLES
    state,           \* this.state
    experimentData,  \* this.experimentData, the ledger
    ivChartData,     \* this.ivChart.data.datasets[0].data
    dataTable,       \* rows of elements.dataTableBody
    physics,         \* the result updateAllCalculations last put on display
    output,          \* what the last handler gave the user: alert, CSV download
    afterReset,      \* history: the resetExperiment runs that ended here
    now,             \* Date.now(), a logical clock
    drawn,           \* history: the Math.random() draws of every measurement;
                     \* drawn[t + 1] are those of the record with timestamp t
    animationTime    \* this.animationTime

vars == <<state, experimentData, ivChartData, dataTable, physics, output,
          afterReset, now, drawn, animationTime>>

-----------------------------------------------------------------------------
(* Arithmetic helpers *)

Abs(x) == IF x < 0 THEN -x ELSE x

Max(a, b) == IF a >= b THEN a ELSE b

Min(a, b) == IF a <= b THEN a ELSE b

RECURSIVE Pow10(_)
Pow10(n) == IF n = 0 THEN 1 ELSE 10 * Pow10(n - 1)

\* Number.prototype.toFixed(want) of a value held with `have` decimals:
\* the nearest value with `want` decimals, ties away from zero.
ToFixed(x, have, want) ==
    IF want >= have
    THEN x * Pow10(want - have)
    ELSE LET p == Pow10(have - want)
             m == (Abs(x) + p \div 2) \div p
         IN  IF x < 0 THEN -m ELSE m

\* Math.sqrt on non-negative integers: the integer part of the root.
RECURSIVE SqrtSearch(_, _, _)
SqrtSearch(n, lo, hi) ==
    IF lo >= hi THEN lo
    ELSE LET mid == (lo + hi + 1) \div 2
         IN  IF mid * mid <= n THEN SqrtSearch(n, mid, hi)
                               ELSE SqrtSearch(n, lo, mid - 1)

Sqrt(n) == SqrtSearch(n, 0, Min(n, 46340))

\* Math.exp on [-1.01, 0]: argument in 1e-4, result in 1e-5, by the Taylor
\* series to ExpTerms terms in Horner form.
ExpTerms == 12

RECURSIVE ExpHorner(_, _)
ExpHorner(x, k) ==
    IF k > ExpTerms THEN 100000
    ELSE 100000 + (x * ExpHorner(x, k + 1)) \div (k * 10000)

Exp(x) == ExpHorner(x, 1)

RECURSIVE SumSeq(_)
SumSeq(s) == IF s = <<>> THEN 0 ELSE Head(s) + SumSeq(Tail(s))

-----------------------------------------------------------------------------
(* Constants and the materials table *)

planckConstant == 4136      \* 4.136e-15 eV s, in 1e-18 eV s
speedOfLight == 2998        \* 2.998e8 m/s, in 1e5 m/s
elementaryCharge == 1602    \* 1.602e-19 C, in 1e-22 C

materials == <<
    [name |-> "Cesium",    symbol |-> "Cs", workFunction |-> 210],
    [name |-> "Sodium",    symbol |-> "Na", workFunction |-> 228],
    [name |-> "Potassium", symbol |-> "K",  workFunction |-> 230],
    [name |-> "Aluminum",  symbol |-> "Al", workFunction |-> 408],
    [name |-> "Copper",    symbol |-> "Cu", workFunction |-> 470],
    [name |-> "Silver",    symbol |-> "Ag", workFunction |-> 473],
    [name |-> "Gold",      symbol |-> "Au", workFunction |-> 510] >>

\* The option values of #material-select.
MaterialIds == 0 .. 6

\* The slider ranges of the page.
WavelengthRange == 100 .. 700
IntensityRange == 10 .. 100
AreaRange == 1 .. 100
VoltageRange == -500 .. 500

-----------------------------------------------------------------------------
(* calculatePhysics *)

\* planckConstant * speedOfLight / (wavelength * 1e-9), in 1e-6 eV.
\* h*c is 12399728e-13 eV m = 1239.9728 eV nm.
PhotonEnergyOf(wavelength) ==
    (planckConstant * speedOfLight * 100) \div wavelength

\* The saturation current with 0.01 for the factor 0.001.
SaturationCurrentOfTenfold(st) == st.intensity * st.area * 10000

\* intensity * area * 0.001 uA, in 1e-9 uA.
SaturationCurrentOf(st) == st.intensity * st.area * 1000

\* calculatePhysics without the test against the stopping potential.
calculatePhysicsNoCutoff(st) ==
    LET photonEnergy == PhotonEnergyOf(st.wavelength)
        workFunction == st.currentMaterial.workFunction * 10000
        maxKineticEnergy == Max(0, photonEnergy - workFunction)
        isEmission == photonEnergy > workFunction
        factor == (st.voltage * 1000000) \div Max(1, maxKineticEnergy \div 100)
    IN  [ frequency           |-> (speedOfLight * 100000) \div st.wavelength,
          photonEnergy        |-> photonEnergy,
          workFunction        |-> workFunction,
          maxKineticEnergy    |-> maxKineticEnergy,
          thresholdWavelength |->
              (planckConstant * speedOfLight * 100)
                  \div (st.currentMaterial.workFunction * elementaryCharge),
          stoppingPotential   |-> maxKineticEnergy,
          current             |->
              IF isEmission
              THEN IF st.voltage >= 0
                   THEN SaturationCurrentOf(st)
                   ELSE (st.intensity * st.area * Exp(Max(factor, -10100))) \div 100
              ELSE 0,
          isEmission          |-> isEmission ]

\* calculatePhysics with the sign of the retarding exponent lost:
\* exp(-factor), computed as 1 / exp(factor), in 1e-3.
calculatePhysicsSignLost(st) ==
    LET photonEnergy == PhotonEnergyOf(st.wavelength)
        workFunction == st.currentMaterial.workFunction * 10000
        maxKineticEnergy == Max(0, photonEnergy - workFunction)
        isEmission == photonEnergy > workFunction
        factor == (st.voltage * 1000000) \div (maxKineticEnergy \div 100)
    IN  [ frequency           |-> (speedOfLight * 100000) \div st.wavelength,
          photonEnergy        |-> photonEnergy,
          workFunction        |-> workFunction,
          maxKineticEnergy    |-> maxKineticEnergy,
          thresholdWavelength |->
              (planckConstant * speedOfLight * 100)
                  \div (st.currentMaterial.workFunction * elementaryCharge),
          stoppingPotential   |-> maxKineticEnergy,
          current             |->
              IF isEmission /\ st.voltage * 10000 >= -maxKineticEnergy
              THEN IF st.voltage >= 0
                   THEN SaturationCurrentOf(st)
                   ELSE st.intensity * st.area * (100000000 \div Exp(factor))
              ELSE 0,
          isEmission          |-> isEmission ]

\* calculatePhysics with the operands of the kinetic energy exchanged:
\* Math.max(0, workFunction - photonEnergy).
calculatePhysicsEnergySwapped(st) ==
    LET photonEnergy == PhotonEnergyOf(st.wavelength)
        workFunction == st.currentMaterial.workFunction * 10000
        maxKineticEnergy == Max(0, workFunction - photonEnergy)
        isEmission == photonEnergy > workFunction
        factor == (st.voltage * 1000000) \div (maxKineticEnergy \div 100)
    IN  [ frequency           |-> (speedOfLight * 100000) \div st.wavelength,
          photonEnergy        |-> photonEnergy,
          workFunction        |-> workFunction,
          maxKineticEnergy    |-> maxKineticEnergy,
          thresholdWavelength |->
              (planckConstant * speedOfLight * 100)
                  \div (st.currentMaterial.workFunction * elementaryCharge),
          stoppingPotential   |-> maxKineticEnergy,
          current             |->
              IF isEmission /\ st.voltage * 10000 >= -maxKineticEnergy
              THEN IF st.voltage >= 0
                   THEN SaturationCurrentOf(st)
                   ELSE (st.intensity * st.area * Exp(factor)) \div 100
              ELSE 0,
          isEmission          |-> isEmission ]

calculatePhysics(st) ==
    LET \* speedOfLight / (wavelength * 1e-9), in GHz
        frequency == (speedOfLight * 100000) \div st.wavelength
        photonEnergy == PhotonEnergyOf(st.wavelength)
        workFunction == st.currentMaterial.workFunction * 10000
        maxKineticEnergy == Max(0, photonEnergy - workFunction)
        \* (h*c) / (workFunction * 1.602e-19) * 1e9 nm, in 1e18 nm
        thresholdWavelength ==
            (planckConstant * speedOfLight * 100)
                \div (st.currentMaterial.workFunction * elementaryCharge)
        stoppingPotential == maxKineticEnergy
        isEmission == photonEnergy > workFunction
        saturationCurrent == SaturationCurrentOf(st)
        \* voltage / stoppingPotential, in 1e-4
        factor == (st.voltage * 1000000) \div (stoppingPotential \div 100)
        current ==
            IF isEmission /\ st.voltage * 10000 >= -stoppingPotential
            THEN IF st.voltage >= 0
                 THEN saturationCurrent
                 ELSE (st.intensity * st.area * Exp(factor)) \div 100
            ELSE 0
    IN  [ frequency           |-> frequency,
          photonEnergy        |-> photonEnergy,
          workFunction        |-> workFunction,
          maxKineticEnergy    |-> maxKineticEnergy,
          thresholdWavelength |-> thresholdWavelength,
          stoppingPotential   |-> stoppingPotential,
          current             |-> current,
          isEmission          |-> isEmission ]

-----------------------------------------------------------------------------
(* takePrecisionMeasurement, updateDataTable *)

\* const measurementCount = 1000: the number of readings of one measurement,
\* scaled down.
measurementCount == 2

\* All draws of Math.random(), and the random sources the ledger is explored
\* with: every reading at the bottom of the band, every reading at the
\* top, and alternating bottom and top.
Draws == 0 .. 99

RandomSources ==
    { [i \in 1 .. measurementCount |-> 0],
      [i \in 1 .. measurementCount |-> 99],
      [i \in 1 .. measurementCount |-> IF i % 2 = 1 THEN 0 ELSE 99] }

\* MeasurementData with a noise that depends on the time of the measurement.
MeasurementDataTimeSeeded(st, rnd, t) ==
    LET current == calculatePhysics(st).current
        measurements ==
            [i \in 1 .. measurementCount |->
                current + ((rnd[i] - 50 + t) * current) \div 1000000]
        mean == SumSeq(measurements) \div measurementCount
        variance ==
            SumSeq([i \in 1 .. measurementCount |->
                       (measurements[i] - mean) * (measurements[i] - mean)])
                \div measurementCount
        standardDeviation == Sqrt(variance * 100)
    IN  [ voltage            |-> st.voltage,
          mean               |-> mean,
          standardDeviation  |-> standardDeviation,
          standardError      |->
              (standardDeviation * 1000) \div Sqrt(measurementCount * 1000000),
          measurements       |-> measurementCount,
          individualReadings |-> measurements,
          timestamp          |-> t,
          material           |-> st.currentMaterial.name,
          wavelength         |-> st.wavelength,
          intensity          |-> st.intensity,
          area               |-> st.area ]

\* The measurementData object built from the parameters st, the draws rnd and
\* the time t.  mean and readings in 1e-9 uA, deviation and error in 1e-10 uA.
MeasurementData(st, rnd, t) ==
    LET current == calculatePhysics(st).current
        \* noise = (Math.random() - 0.5) * 0.0001 * physics.current
        measurements ==
            [i \in 1 .. measurementCount |->
                current + ((rnd[i] - 50) * current) \div 1000000]
        mean == SumSeq(measurements) \div measurementCount
        variance ==
            SumSeq([i \in 1 .. measurementCount |->
                       (measurements[i] - mean) * (measurements[i] - mean)])
                \div measurementCount
        standardDeviation == Sqrt(variance * 100)
        standardError ==
            (standardDeviation * 1000) \div Sqrt(measurementCount * 1000000)
    IN  [ voltage            |-> st.voltage,
          mean               |-> mean,
          standardDeviation  |-> standardDeviation,
          standardError      |-> standardError,
          measurements       |-> measurementCount,
          individualReadings |-> measurements,
          timestamp          |-> t,
          material           |-> st.currentMaterial.name,
          wavelength         |-> st.wavelength,
          intensity          |-> st.intensity,
          area               |-> st.area ]

\* this.experimentData.slice(-10)
TableRows == 10

Slice(data, n) == SubSeq(data, Max(1, Len(data) - n + 1), Len(data))

\* updateDataTable showing the first rows instead of the last.
updateDataTableFirstRows(data) ==
    LET recentData == SubSeq(data, 1, Min(Len(data), TableRows))
    IN  [i \in 1 .. Len(recentData) |->
            << ToFixed(recentData[i].voltage, 2, 2),
               ToFixed(recentData[i].mean, 9, 6),
               ToFixed(recentData[i].standardError, 10, 9),
               recentData[i].measurements >>]

\* The rows updateDataTable writes: voltage.toFixed(2), mean.toFixed(6),
\* standardError.toFixed(9), measurements.
updateDataTable(data) ==
    LET recentData == Slice(data, TableRows)
    IN  [i \in 1 .. Len(recentData) |->
            << ToFixed(recentData[i].voltage, 2, 2),
               ToFixed(recentData[i].mean, 9, 6),
               ToFixed(recentData[i].standardError, 10, 9),
               recentData[i].measurements >>]

\* takePrecisionMeasurement with unshift in place of push on the ledger.
takePrecisionMeasurementUnshift(st, rnd) ==
    LET measurementData == MeasurementData(st, rnd, now)
    IN  /\ now' = now + 1
        /\ drawn' = Append(drawn, rnd)
        /\ UNCHANGED animationTime
        /\ experimentData' = <<measurementData>> \o experimentData
        /\ state' = [st EXCEPT !.measurementCount = @ + 1]
        /\ ivChartData' = Append(ivChartData,
                                 [x |-> st.voltage, y |-> measurementData.mean])
        /\ dataTable' = updateDataTable(experimentData')

\* takePrecisionMeasurement keeping the chart points sorted by voltage.
takePrecisionMeasurementSorted(st, rnd) ==
    LET measurementData == MeasurementData(st, rnd, now)
        point == [x |-> st.voltage, y |-> measurementData.mean]
        below == SelectSeq(ivChartData, LAMBDA q : q.x <= point.x)
        above == SelectSeq(ivChartData, LAMBDA q : q.x > point.x)
    IN  /\ now' = now + 1
        /\ drawn' = Append(drawn, rnd)
        /\ UNCHANGED animationTime
        /\ experimentData' = Append(experimentData, measurementData)
        /\ state' = [st EXCEPT !.measurementCount = @ + 1]
        /\ ivChartData' = below \o <<point>> \o above
        /\ dataTable' = updateDataTable(experimentData')

\* takePrecisionMeasurement with this.state = st: Date.now() is read once and
\* the clock moves on; push the record, count it, push the chart point,
\* rewrite the table.
takePrecisionMeasurement(st, rnd) ==
    LET measurementData == MeasurementData(st, rnd, now)
    IN  /\ now' = now + 1
        /\ drawn' = Append(drawn, rnd)
        /\ UNCHANGED animationTime
        /\ experimentData' = Append(experimentData, measurementData)
        /\ state' = [st EXCEPT !.measurementCount = @ + 1]
        /\ ivChartData' = Append(ivChartData,
                                 [x |-> st.voltage, y |-> measurementData.mean])
        /\ dataTable' = updateDataTable(experimentData')

-----------------------------------------------------------------------------
(* The handlers *)

NoOutput == [alert |-> FALSE, download |-> FALSE, csvContent |-> <<>>]

\* afterReset.runs: how many times in a row resetExperiment has just run
\* (0, 1, or 2 for two and more); afterReset.records: the records the ledger
\* held when the last of these runs began.
NotReset == [runs |-> 0, records |-> 0]

\* A handler that shows no alert, downloads nothing and is not the reset.
Quiet == output' = NoOutput /\ afterReset' = NotReset

\* updateAllCalculations after the handler has set this.state
updateAllCalculations == physics' = calculatePhysics(state')

materialChange(id) ==
    /\ state' = [state EXCEPT !.currentMaterial = materials[id + 1]]
    /\ updateAllCalculations
    /\ UNCHANGED <<experimentData, ivChartData, dataTable, now, drawn, animationTime>>
    /\ Quiet

\* The wavelength slider with records that share this.state: the new
\* wavelength shows in every record of the ledger.
wavelengthInputAliased(value) ==
    /\ state' = [state EXCEPT !.wavelength = value]
    /\ updateAllCalculations
    /\ experimentData' =
           [i \in 1 .. Len(experimentData) |->
               [experimentData[i] EXCEPT !.wavelength = value]]
    /\ UNCHANGED <<ivChartData, dataTable, now, drawn, animationTime>>
    /\ Quiet

wavelengthInput(value) ==
    /\ state' = [state EXCEPT !.wavelength = value]
    /\ updateAllCalculations
    /\ UNCHANGED <<experimentData, ivChartData, dataTable, now, drawn, animationTime>>
    /\ Quiet

intensityInput(value) ==
    /\ state' = [state EXCEPT !.intensity = value]
    /\ updateAllCalculations
    /\ UNCHANGED <<experimentData, ivChartData, dataTable, now, drawn, animationTime>>
    /\ Quiet

areaInput(value) ==
    /\ state' = [state EXCEPT !.area = value]
    /\ updateAllCalculations
    /\ UNCHANGED <<experimentData, ivChartData, dataTable, now, drawn, animationTime>>
    /\ Quiet

\* The voltage slider measuring whether the light is on or not.
voltageInputAlways(value, rnd) ==
    /\ takePrecisionMeasurement([state EXCEPT !.voltage = value], rnd)
    /\ updateAllCalculations
    /\ Quiet

voltageInput(value, rnd) ==
    LET st == [state EXCEPT !.voltage = value]
    IN  /\ IF st.isLightOn
           THEN takePrecisionMeasurement(st, rnd)
           ELSE /\ state' = st
                /\ UNCHANGED <<experimentData, ivChartData, dataTable, now, drawn, animationTime>>
        /\ updateAllCalculations
        /\ Quiet

toggleLight(rnd) ==
    LET st == [state EXCEPT !.isLightOn = ~state.isLightOn]
    IN  /\ IF st.isLightOn
           THEN takePrecisionMeasurement(st, rnd)
           ELSE /\ state' = st
                /\ UNCHANGED <<experimentData, ivChartData, dataTable, now, drawn, animationTime>>
        /\ UNCHANGED physics
        /\ Quiet

clearGraph == ivChartData' = <<>>

\* The clear-graph button emptying the ledger along with the chart.
clearGraphClickDropsRecords ==
    /\ clearGraph
    /\ experimentData' = <<>>
    /\ dataTable' = <<>>
    /\ UNCHANGED <<state, physics, now, drawn, animationTime>>
    /\ Quiet

clearGraphClick ==
    /\ clearGraph
    /\ UNCHANGED <<state, experimentData, dataTable, physics, now,
                 drawn, animationTime>>
    /\ Quiet

\* resetExperiment leaving this.state.measurementCount as it is.
resetExperimentKeepsCount ==
    /\ state' = [state EXCEPT !.isLightOn = FALSE,
                              !.wavelength = 400,
                              !.intensity = 50,
                              !.area = 10,
                              !.voltage = 0,
                              !.currentMaterial = materials[1]]
    /\ experimentData' = <<>>
    /\ dataTable' = <<>>
    /\ clearGraph
    /\ updateAllCalculations
    /\ output' = NoOutput
    /\ afterReset' = [runs |-> Min(afterReset.runs + 1, 2),
                      records |-> Len(experimentData)]
    /\ UNCHANGED <<now, drawn, animationTime>>

\* resetExperiment without the call of clearGraph.
resetExperimentKeepsGraph ==
    /\ state' = [state EXCEPT !.isLightOn = FALSE,
                              !.measurementCount = 0,
                              !.wavelength = 400,
                              !.intensity = 50,
                              !.area = 10,
                              !.voltage = 0,
                              !.currentMaterial = materials[1]]
    /\ experimentData' = <<>>
    /\ dataTable' = <<>>
    /\ UNCHANGED ivChartData
    /\ updateAllCalculations
    /\ output' = NoOutput
    /\ afterReset' = [runs |-> Min(afterReset.runs + 1, 2),
                      records |-> Len(experimentData)]
    /\ UNCHANGED <<now, drawn, animationTime>>

\* resetExperiment flipping the light as toggleLight does instead of
\* switching it off.
resetExperimentFlipsLight ==
    /\ state' = [state EXCEPT !.isLightOn = ~state.isLightOn,
                              !.measurementCount = 0,
                              !.wavelength = 400,
                              !.intensity = 50,
                              !.area = 10,
                              !.voltage = 0,
                              !.currentMaterial = materials[1]]
    /\ experimentData' = <<>>
    /\ dataTable' = <<>>
    /\ clearGraph
    /\ updateAllCalculations
    /\ output' = NoOutput
    /\ afterReset' = [runs |-> Min(afterReset.runs + 1, 2),
                      records |-> Len(experimentData)]
    /\ UNCHANGED <<now, drawn, animationTime>>

resetExperiment ==
    /\ state' = [state EXCEPT !.isLightOn = FALSE,
                              !.measurementCount = 0,
                              !.wavelength = 400,
                              !.intensity = 50,
                              !.area = 10,
                              !.voltage = 0,
                              !.currentMaterial = materials[1]]
    /\ experimentData' = <<>>
    /\ dataTable' = <<>>
    /\ clearGraph
    /\ updateAllCalculations
    /\ output' = NoOutput
    /\ afterReset' = [runs |-> Min(afterReset.runs + 1, 2),
                      records |-> Len(experimentData)]
    /\ UNCHANGED <<now, drawn, animationTime>>

headers ==
    << "Timestamp", "Material", "Work_Function_eV", "Wavelength_nm",
       "Photon_Energy_eV", "Intensity_W_per_m2", "Area_cm2",
       "Applied_Voltage_V", "Mean_Current_uA", "Standard_Deviation_uA",
       "Standard_Error_uA", "Measurements_Count", "Individual_Readings" >>

\* A CSV row with the mean and the standard deviation in each other's column.
CsvRowSwapped(data, st) ==
    << [iso |-> data.timestamp],
       data.material,
       ToFixed(st.currentMaterial.workFunction, 2, 6),
       data.wavelength,
       ToFixed(PhotonEnergyOf(data.wavelength), 6, 6),
       data.intensity,
       data.area,
       ToFixed(data.voltage, 2, 6),
       ToFixed(data.standardDeviation, 10, 6),
       ToFixed(data.mean, 9, 6),
       ToFixed(data.standardError, 10, 6),
       data.measurements,
       [i \in 1 .. Len(data.individualReadings) |->
           ToFixed(data.individualReadings[i], 9, 6)] >>

\* One CSV row of exportAllData, the fields in the order of the headers.
CsvRow(data, st) ==
    << [iso |-> data.timestamp],
       data.material,
       ToFixed(st.currentMaterial.workFunction, 2, 6),
       data.wavelength,
       ToFixed(PhotonEnergyOf(data.wavelength), 6, 6),
       data.intensity,
       data.area,
       ToFixed(data.voltage, 2, 6),
       ToFixed(data.mean, 9, 6),
       ToFixed(data.standardDeviation, 10, 6),
       ToFixed(data.standardError, 10, 6),
       data.measurements,
       [i \in 1 .. Len(data.individualReadings) |->
           ToFixed(data.individualReadings[i], 9, 6)] >>

\* csvContent with the newest record first.
CsvContentReversed(data, st) ==
    <<headers>> \o [i \in 1 .. Len(data) |-> CsvRow(data[Len(data) + 1 - i], st)]

\* csvContent: the header line, then one line per record.
CsvContent(data, st) ==
    <<headers>> \o [i \in 1 .. Len(data) |-> CsvRow(data[i], st)]

\* exportAllData without the test for an empty ledger.
exportAllDataNoGuard ==
    /\ UNCHANGED <<state, experimentData, ivChartData, dataTable, physics, now,
                 drawn, animationTime>>
    /\ afterReset' = NotReset
    /\ output' = [alert |-> FALSE, download |-> TRUE,
                  csvContent |-> CsvContent(experimentData, state)]

\* exportAllData emptying the ledger once it is written out.
exportAllDataDrains ==
    /\ UNCHANGED <<state, ivChartData, dataTable, physics, now,
                 drawn, animationTime>>
    /\ experimentData' = <<>>
    /\ afterReset' = NotReset
    /\ IF Len(experimentData) = 0
       THEN output' = [alert |-> TRUE, download |-> FALSE, csvContent |-> <<>>]
       ELSE output' = [alert |-> FALSE, download |-> TRUE,
                       csvContent |-> CsvContent(experimentData, state)]

exportAllData ==
    /\ UNCHANGED <<state, experimentData, ivChartData, dataTable, physics, now,
                 drawn, animationTime>>
    /\ afterReset' = NotReset
    /\ IF Len(experimentData) = 0
       THEN output' = [alert |-> TRUE, download |-> FALSE, csvContent |-> <<>>]
       ELSE output' = [alert |-> FALSE, download |-> TRUE,
                       csvContent |-> CsvContent(experimentData, state)]

-----------------------------------------------------------------------------
(* The application: every handler, on small input sets *)

\* this.state as the constructor sets it.
Init_state ==
    [ currentMaterial   |-> materials[1],
      wavelength        |-> 400,
      intensity         |-> 50,
      area              |-> 10,
      voltage           |-> 0,
      isLightOn         |-> FALSE,
      experimentRunning |-> FALSE,
      measurementCount  |-> 0 ]

Init ==
    /\ state = Init_state
    /\ experimentData = <<>>
    /\ ivChartData = <<>>
    /\ dataTable = <<>>
    /\ physics = calculatePhysics(state)
    /\ output = NoOutput
    /\ afterReset = NotReset
    /\ now = 0
    /\ drawn = <<>>
    /\ animationTime = 0

\* The number of measurements explored in one run of the application.
MaxClock == 2

AppMaterialIds == {0, 3}
AppWavelengths == {250, 400}
AppIntensities == {50, 100}
AppAreas == {10, 100}
AppVoltages == {-50, 0}
AppRandomSources == { [i \in 1 .. measurementCount |-> IF i % 2 = 1 THEN 0 ELSE 99] }

\* The parameters that differ from their defaults.
OffDefault(st) ==
    { p \in {"currentMaterial", "wavelength", "intensity", "area", "voltage"} :
        st[p] # Init_state[p] }

\* The exploration keeps at most one of them off its default at a time.
Explored == Cardinality(OffDefault(state)) <= 1

MaterialChangeEvent == \E id \in AppMaterialIds : materialChange(id)

WavelengthInputEvent == \E value \in AppWavelengths : wavelengthInput(value)

IntensityInputEvent == \E value \in AppIntensities : intensityInput(value)

AreaInputEvent == \E value \in AppAreas : areaInput(value)

VoltageInputEvent ==
    \E value \in AppVoltages, rnd \in AppRandomSources : voltageInput(value, rnd)

ToggleLightEvent == \E rnd \in AppRandomSources : toggleLight(rnd)

Next ==
    \/ MaterialChangeEvent /\ Explored'
    \/ WavelengthInputEvent /\ Explored'
    \/ IntensityInputEvent /\ Explored'
    \/ AreaInputEvent /\ Explored'
    \/ VoltageInputEvent /\ Explored' /\ now' <= MaxClock
    \/ ToggleLightEvent /\ now' <= MaxClock
    \/ resetExperiment
    \/ clearGraphClick
    \/ exportAllData

Spec == Init /\ [][Next]_vars

-----------------------------------------------------------------------------
(* The data table: long voltage sweeps on the default parameters *)

\* The number of measurements explored in one sweep.
MaxSweepClock == 11

SweepVoltages == {-50, 0}

SweepVoltageInputEvent ==
    \E value \in SweepVoltages, rnd \in AppRandomSources : voltageInput(value, rnd)

NextSweep ==
    \/ SweepVoltageInputEvent /\ now' <= MaxSweepClock
    \/ ToggleLightEvent /\ now' <= MaxSweepClock
    \/ resetExperiment

SpecSweep == Init /\ [][NextSweep]_vars

-----------------------------------------------------------------------------
(* The physics: the parameter handlers over every material and wide ranges,
   the light off *)

PhysWavelengths ==
    {100, 243, 244, 262, 263, 303, 304, 400, 539, 540, 590, 591, 700}
PhysIntensities == {50, 100}
PhysAreas == {10, 100}
PhysVoltages == {v \in VoltageRange : v % 25 = 0} \cup {-1, 1}

PhysMaterialChangeEvent == \E id \in MaterialIds : materialChange(id)

PhysWavelengthInputEvent == \E value \in PhysWavelengths : wavelengthInput(value)

PhysIntensityInputEvent == \E value \in PhysIntensities : intensityInput(value)

PhysAreaInputEvent == \E value \in PhysAreas : areaInput(value)

PhysVoltageInputEvent ==
    \E value \in PhysVoltages, rnd \in AppRandomSources : voltageInput(value, rnd)

NextPhysics ==
    \/ PhysMaterialChangeEvent
    \/ PhysWavelengthInputEvent
    \/ PhysIntensityInputEvent
    \/ PhysAreaInputEvent
    \/ PhysVoltageInputEvent

SpecPhysics == Init /\ [][NextPhysics]_vars

-----------------------------------------------------------------------------
(* The boundary: the parameter handlers given values inside and outside the
   ranges of the sliders, the light off *)

BoundaryWavelengths == {50, 100, 700, 800}
BoundaryIntensities == {0, 10, 100, 110}
BoundaryAreas == {0, 1, 100, 101}
BoundaryVoltages == {-600, -500, 500, 600}

BoundaryWavelengthInputEvent ==
    \E value \in BoundaryWavelengths : wavelengthInput(value)

BoundaryIntensityInputEvent ==
    \E value \in BoundaryIntensities : intensityInput(value)

BoundaryAreaInputEvent == \E value \in BoundaryAreas : areaInput(value)

BoundaryVoltageInputEvent ==
    \E value \in BoundaryVoltages, rnd \in AppRandomSources :
        voltageInput(value, rnd)

NextBoundary ==
    \/ PhysMaterialChangeEvent
    \/ BoundaryWavelengthInputEvent
    \/ BoundaryIntensityInputEvent
    \/ BoundaryAreaInputEvent
    \/ BoundaryVoltageInputEvent

SpecBoundary == Init /\ [][NextBoundary]_vars

-----------------------------------------------------------------------------
(* The sampler: measurements on the default parameters at two voltages, with
   every random source *)

SamplerVoltageInputEvent ==
    \E value \in SweepVoltages, rnd \in RandomSources :
        voltageInput(value, rnd)

SamplerToggleLightEvent == \E rnd \in RandomSources : toggleLight(rnd)

NextSampler ==
    \/ SamplerVoltageInputEvent /\ now' <= MaxClock
    \/ SamplerToggleLightEvent /\ now' <= MaxClock
    \/ resetExperiment

SpecSampler == Init /\ [][NextSampler]_vars

-----------------------------------------------------------------------------
(* The animation loop: the redraw tick between measurements, resets, graph
   clearings and exports on the default parameters.  The canvases and the
   particle lists the tick draws are presentation and are not held here. *)

\* The number of redraw ticks explored.
MaxFrames == 2

\* A redraw tick that takes a measurement while the light is on.
animateMeasures ==
    /\ animationTime' = animationTime + 16
    /\ IF state.isLightOn
       THEN \E rnd \in AppRandomSources :
                /\ now' = now + 1
                /\ drawn' = Append(drawn, rnd)
                /\ experimentData' =
                       Append(experimentData, MeasurementData(state, rnd, now))
                /\ state' = [state EXCEPT !.measurementCount = @ + 1]
                /\ UNCHANGED <<ivChartData, dataTable>>
       ELSE UNCHANGED <<state, experimentData, ivChartData, dataTable, now, drawn>>
    /\ UNCHANGED <<physics, output, afterReset>>

\* animate: one frame of startAnimationLoop.  The physics it calculates is a
\* local the diagrams are drawn from.
animate ==
    /\ animationTime' = animationTime + 16
    /\ UNCHANGED <<state, experimentData, ivChartData, dataTable, physics,
                   output, afterReset, now, drawn>>

NextAnimation ==
    \/ animate /\ animationTime' <= 16 * MaxFrames
    \/ SweepVoltageInputEvent /\ now' <= MaxClock
    \/ ToggleLightEvent /\ now' <= MaxClock
    \/ resetExperiment
    \/ clearGraphClick
    \/ exportAllData

SpecAnimation == Init /\ [][NextAnimation]_vars

-----------------------------------------------------------------------------
(* The claims *)

IsPrefix(s, t) == Len(s) <= Len(t) /\ SubSeq(t, 1, Len(s)) = s

\* The (voltage, mean) pairs of the records data, in the order of data.
IvPairs(data) ==
    [i \in 1 .. Len(data) |-> [x |-> data[i].voltage, y |-> data[i].mean]]

\* A step that takes a measurement: the light is switched on, or the voltage
\* slider moves while the light is on.
MeasurementStep ==
    \/ ~state.isLightOn /\ ToggleLightEvent
    \/ state.isLightOn /\ VoltageInputEvent

\* C1: in every reachable state the ledger holds as many records as
\* state.measurementCount counts.
C1_LedgerLengthIsCounter == Len(experimentData) = state.measurementCount

\* C1 witness: two measurements are in the ledger and counted.
C1_Witness == Len(experimentData) = 2 /\ state.measurementCount = 2

\* C2: every measurement appends exactly one record at the end of the ledger
\* and adds 1 to the counter, and every step that is not a reset keeps the
\* records it found as a prefix of the ledger.
C2_AppendOnly ==
    [][ /\ \/ /\ Len(experimentData') = Len(experimentData) + 1
              /\ IsPrefix(experimentData, experimentData')
              /\ state'.measurementCount = state.measurementCount + 1
           \/ ~MeasurementStep
        /\ \/ IsPrefix(experimentData, experimentData')
           \/ resetExperiment ]_vars

\* C2 witness: a second record with another voltage stands behind the first.
C2_Witness ==
    /\ Len(experimentData) = 2
    /\ experimentData[1].voltage # experimentData[2].voltage
    /\ experimentData[1].timestamp < experimentData[2].timestamp

\* C3: after resetExperiment the ledger, the data table and the I-V points
\* are empty and the counter is 0, however many records there were.
C3_ResetEmpties ==
    afterReset.runs > 0 =>
        /\ Len(experimentData) = 0
        /\ Len(dataTable) = 0
        /\ Len(ivChartData) = 0
        /\ state.measurementCount = 0

\* C3 witness: the reset that just ran found two records.
C3_Witness == afterReset.runs = 1 /\ afterReset.records = 2

\* C4: a resetExperiment that follows a resetExperiment changes nothing of
\* the parameters, the light, the counter, the records, the table, the I-V
\* points and the display; and a reset of an empty ledger leaves it empty with
\* the counter at 0.
C4_ResetIdempotent ==
    [][ resetExperiment =>
          /\ afterReset.runs > 0 =>
                UNCHANGED <<state, experimentData, ivChartData, dataTable, physics>>
          /\ Len(experimentData) = 0 =>
                Len(experimentData') = 0 /\ state'.measurementCount = 0 ]_vars

\* C4 witness: two resets in a row, the first one on a ledger that had held
\* records.
C4_Witness == afterReset.runs = 2 /\ afterReset.records = 0 /\ now > 0

\* C5: exportAllData on an empty ledger downloads nothing, builds no CSV
\* text (not even the header line) and raises the alert; on a ledger with
\* records it raises no alert.
C5_EmptyExportSignals ==
    [][ exportAllData =>
          /\ Len(experimentData) = 0 =>
                /\ output'.alert
                /\ ~output'.download
                /\ output'.csvContent = <<>>
          /\ Len(experimentData) > 0 => ~output'.alert /\ output'.download ]_vars

\* C5 witness: the alert is up over an empty ledger that had held records.
C5_Witness == output.alert /\ Len(experimentData) = 0 /\ now > 0

\* C6: exportAllData, failing or not, leaves the records, the counter, the
\* I-V points and the parameters as they were.
C6_ExportChangesNothing ==
    [][ \/ UNCHANGED <<state, experimentData, ivChartData, dataTable, physics>>
        \/ ~exportAllData ]_vars

\* C6 witness: a CSV of two records has been downloaded and both are still
\* in the ledger and on the chart.
C6_Witness ==
    /\ output.download
    /\ Len(output.csvContent) = 3
    /\ Len(experimentData) = 2
    /\ Len(ivChartData) = 2

\* C7 as claimed: in every reachable state the I-V points are the (voltage,
\* mean) pairs of all the ledger's records, in insertion order.
C7_IvCurveIsAllPairs == ivChartData = IvPairs(experimentData)

\* C7 as amended: in every reachable state the I-V points are the (voltage,
\* mean) pairs of the most recent records of the ledger, one per record, in
\* insertion order and not sorted by voltage; they are the pairs of all the
\* records unless clearGraph has emptied the chart since.
C7_IvCurveIsRecentPairs ==
    /\ Len(ivChartData) <= Len(experimentData)
    /\ ivChartData =
          SubSeq(IvPairs(experimentData),
                 Len(experimentData) - Len(ivChartData) + 1,
                 Len(experimentData))

\* C7 witness: two points on the chart, the higher voltage measured first.
C7_Witness ==
    /\ Len(ivChartData) = 2
    /\ ivChartData[1].x > ivChartData[2].x

\* C8: the data table shows the min(10, n) most recent of the n records of
\* the ledger, oldest first, each as voltage.toFixed(2), mean.toFixed(6),
\* standardError.toFixed(9) and the number of readings.
C8_TableShowsLastRows ==
    LET n == Len(experimentData)
        k == Min(TableRows, n)
    IN  /\ Len(dataTable) = k
        /\ \A i \in 1 .. k :
              LET data == experimentData[n - k + i]
              IN  dataTable[i] = << ToFixed(data.voltage, 2, 2),
                                    ToFixed(data.mean, 9, 6),
                                    ToFixed(data.standardError, 10, 9),
                                    data.measurements >>

\* C8 witness: eleven records, ten rows, and the oldest record differs in
\* voltage from the first row shown.
C8_Witness ==
    /\ Len(experimentData) = 11
    /\ Len(dataTable) = 10
    /\ experimentData[1].voltage # experimentData[2].voltage

\* C9: the displayed current is 0 whenever the voltage is below minus the
\* stopping potential and whenever there is no emission.
C9_NoCurrentBelowStopping ==
    (~physics.isEmission \/ state.voltage * 10000 < -physics.stoppingPotential)
        => physics.current = 0

\* C9 witness: emission, a saturation current above 0, and a voltage below
\* minus the stopping potential.
C9_Witness ==
    /\ physics.isEmission
    /\ state.voltage * 10000 < -physics.stoppingPotential
    /\ SaturationCurrentOf(state) > 0
    /\ physics.current = 0

\* The voltage lies in [-stoppingPotential, 0].
InRetardingInterval ==
    /\ state.voltage <= 0
    /\ state.voltage * 10000 >= -physics.stoppingPotential

\* C10: when the voltage slider moves up within [-stoppingPotential, 0] and
\* nothing else changes, the current does not fall; and it never exceeds the
\* saturation current intensity * area * 0.001.
C10_CurrentMonotone ==
    [][ /\ physics'.current <= SaturationCurrentOf(state')
        /\ ( /\ state' = [state EXCEPT !.voltage = state'.voltage]
             /\ InRetardingInterval
             /\ InRetardingInterval'
             /\ state.voltage <= state'.voltage )
           => physics.current <= physics'.current ]_vars

\* C10 witness: emission at a voltage strictly inside the interval, the
\* current strictly between 0 and the saturation current.
C10_Witness ==
    /\ physics.isEmission
    /\ state.voltage < 0
    /\ state.voltage * 10000 > -physics.stoppingPotential
    /\ physics.current > 0
    /\ physics.current < SaturationCurrentOf(state)

\* C11: with emission and a voltage of 0 or more the displayed current is
\* intensity * area * 0.001 uA, whatever the voltage and the wavelength; at
\* voltage 0, intensity 5 and area 0.10 it is 0.0005 uA.
C11_SaturationCurrent ==
    (physics.isEmission /\ state.voltage >= 0) =>
        /\ physics.current = state.intensity * state.area * 1000
        /\ (state.voltage = 0 /\ state.intensity = 50 /\ state.area = 10)
              => physics.current = 500000

\* C11 witness: saturation at a positive voltage, off the default wavelength,
\* intensity and area.
C11_Witness ==
    /\ physics.isEmission
    /\ state.voltage > 0
    /\ state.wavelength # 400
    /\ state.intensity = 100
    /\ state.area = 100
    /\ physics.current = 10000000

\* C12: for Cesium at 400 nm the photon energy is within 0.01 eV of 3.10 eV,
\* the maximum kinetic energy within 0.01 eV of 1.00 eV, the threshold
\* wavelength about 590.9 nm (here: below 1e18 nm, the unit it is held in),
\* and emission occurs.
C12_CesiumAt400 ==
    (state.currentMaterial.name = "Cesium" /\ state.wavelength = 400) =>
        /\ Abs(physics.photonEnergy - 3100000) <= 10000
        /\ Abs(physics.maxKineticEnergy - 1000000) <= 10000
        /\ physics.thresholdWavelength < 1
        /\ physics.isEmission

\* The wavelength is shorter than the computed threshold wavelength.  Every
\* wavelength of the slider is below 1e18 nm, the unit of the threshold.
ShorterThanThreshold == physics.thresholdWavelength >= 1

\* C13: emission occurs exactly when the wavelength is shorter than the
\* computed threshold wavelength of the material.
C13_EmissionIffBelowThreshold == physics.isEmission <=> ShorterThanThreshold

\* C15: whenever emission occurs the stopping potential is above 0, so the
\* retarding-region division never divides by 0, and the current lies between
\* 0 and the saturation current.
C15_NoDivisionByZero ==
    /\ physics.isEmission => physics.stoppingPotential > 0
    /\ ( /\ physics.isEmission
         /\ state.voltage < 0
         /\ state.voltage * 10000 >= -physics.stoppingPotential )
          => physics.stoppingPotential \div 100 > 0
    /\ physics.current >= 0
    /\ physics.current <= state.intensity * state.area * 1000
    /\ physics.thresholdWavelength > 0

\* C15 witness: the division has been done, close to the stopping potential.
C15_Witness ==
    /\ physics.isEmission
    /\ state.voltage < 0
    /\ state.voltage * 10000 >= -physics.stoppingPotential
    /\ (state.voltage - 25) * 10000 < -physics.stoppingPotential
    /\ physics.current > 0

\* Every parameter is inside the range of its slider.
InDocumentedRange(st) ==
    /\ st.wavelength \in WavelengthRange
    /\ st.intensity \in IntensityRange
    /\ st.area \in AreaRange
    /\ st.voltage \in VoltageRange
    /\ st.currentMaterial.workFunction > 0

ParametersOf(data) ==
    [ Init_state EXCEPT
        !.currentMaterial =
            CHOOSE m \in {materials[k] : k \in DOMAIN materials} :
                m.name = data.material,
        !.wavelength = data.wavelength,
        !.intensity = data.intensity,
        !.area = data.area,
        !.voltage = data.voltage ]

\* The draws a record was measured with.
DrawsOf(data) == drawn[data.timestamp + 1]

\* C16: every reading of a record is nominal + (u - 0.5) * 2 * 0.0001 *
\* nominal for its draw u, nominal being the current calculatePhysics gives
\* for the record's parameters.
C16_ReadingsSpanTwiceTheNoise ==
    \A k \in 1 .. Len(experimentData) :
        LET data == experimentData[k]
            nominal == calculatePhysics(ParametersOf(data)).current
        IN  \A i \in 1 .. Len(data.individualReadings) :
                data.individualReadings[i] =
                    nominal + ((DrawsOf(data)[i] - 50) * 2 * nominal) \div 1000000

\* Two records were measured with the same parameters.
SameParameters(d, e) ==
    /\ d.voltage = e.voltage
    /\ d.material = e.material
    /\ d.wavelength = e.wavelength
    /\ d.intensity = e.intensity
    /\ d.area = e.area

\* C17: two records measured with the same parameters and the same draws hold
\* the same readings, mean, standard deviation and standard error.
C17_SamplerDeterministic ==
    \A j, k \in 1 .. Len(experimentData) :
        LET d == experimentData[j]
            e == experimentData[k]
        IN  (SameParameters(d, e) /\ DrawsOf(d) = DrawsOf(e)) =>
                /\ d.individualReadings = e.individualReadings
                /\ d.mean = e.mean
                /\ d.standardDeviation = e.standardDeviation
                /\ d.standardError = e.standardError

\* C17 witness: two measurements at different times with the same parameters
\* and the same uneven draws, their readings apart from each other.
C17_Witness ==
    /\ Len(experimentData) = 2
    /\ experimentData[1].timestamp # experimentData[2].timestamp
    /\ SameParameters(experimentData[1], experimentData[2])
    /\ DrawsOf(experimentData[1]) = DrawsOf(experimentData[2])
    /\ experimentData[1].standardDeviation > 0
    /\ experimentData[1].individualReadings = experimentData[2].individualReadings

\* C18: no step changes a record that stays in the ledger: whatever the
\* handler (a parameter change, a later measurement), every field of every
\* earlier record is after the step what it was before.
C18_RecordsImmutable ==
    [][ \A i \in 1 .. Min(Len(experimentData), Len(experimentData')) :
            experimentData'[i] = experimentData[i] ]_vars

\* C18 witness: the wavelength was changed after the first record and a
\* second measurement followed; the first record still holds the old one.
C18_Witness ==
    /\ Len(experimentData) = 2
    /\ experimentData[1].wavelength = 400
    /\ experimentData[2].wavelength = 250
    /\ state.wavelength = 250
    /\ experimentData[1] =
           MeasurementData(ParametersOf(experimentData[1]),
                           DrawsOf(experimentData[1]),
                           experimentData[1].timestamp)

\* C19: the CSV of a ledger of n >= 1 records is the 13-field header line
\* followed by n lines of 13 fields, line i + 1 written from record i.
C19_ExportHeaderAndRows ==
    output.download =>
        /\ Len(experimentData) >= 1
        /\ Len(output.csvContent) = Len(experimentData) + 1
        /\ output.csvContent[1] =
              << "Timestamp", "Material", "Work_Function_eV", "Wavelength_nm",
                 "Photon_Energy_eV", "Intensity_W_per_m2", "Area_cm2",
                 "Applied_Voltage_V", "Mean_Current_uA",
                 "Standard_Deviation_uA", "Standard_Error_uA",
                 "Measurements_Count", "Individual_Readings" >>
        /\ \A i \in 1 .. Len(experimentData) :
              LET row == output.csvContent[i + 1]
                  data == experimentData[i]
              IN  /\ Len(row) = 13
                  /\ row[1] = [iso |-> data.timestamp]
                  /\ row[2] = data.material
                  /\ row[4] = data.wavelength
                  /\ row[6] = data.intensity
                  /\ row[7] = data.area
                  /\ row[12] = data.measurements
                  /\ Len(row[13]) = data.measurements

\* C19 witness: a CSV of two records measured at different times and
\* voltages.
C19_Witness ==
    /\ output.download
    /\ Len(experimentData) = 2
    /\ experimentData[1].timestamp < experimentData[2].timestamp
    /\ experimentData[1].voltage # experimentData[2].voltage
    /\ Len(output.csvContent) = 3

\* C20: the Applied_Voltage_V and Mean_Current_uA fields of every CSV line,
\* read back as numbers (in 1e-6), are less than 1e-6 away from the voltage
\* (in 0.01 V) and the mean (in 1e-9 uA) of the record.
C20_ExportRoundTrip ==
    output.download =>
        \A i \in 1 .. Len(experimentData) :
            LET row == output.csvContent[i + 1]
                data == experimentData[i]
            IN  /\ Abs(row[8] * 1000 - data.voltage * 10000000) < 1000
                /\ Abs(row[9] * 1000 - data.mean) < 1000

\* C20 witness: an exported record at a negative voltage whose mean has
\* digits behind the sixth decimal.
C20_Witness ==
    /\ output.download
    /\ \E i \in 1 .. Len(experimentData) :
          /\ experimentData[i].voltage < 0
          /\ experimentData[i].mean > 0
          /\ experimentData[i].mean % 1000 # 0
          /\ output.csvContent[i + 1][9] * 1000 # experimentData[i].mean

\* C21: a redraw tick, wherever it falls between measurements, resets and
\* exports, leaves the parameters, the ledger, the counter, the I-V points
\* and the table as they were.
C21_TickChangesNothing ==
    [][ \/ UNCHANGED <<state, experimentData, ivChartData, dataTable>>
        \/ animationTime' = animationTime ]_vars

\* C21 witness: ticks have run with the light on, after a measurement and a
\* download, and the record and its point are still there.
C21_Witness ==
    /\ animationTime = 32
    /\ state.isLightOn
    /\ output.download
    /\ Len(experimentData) = 1
    /\ state.measurementCount = 1
    /\ Len(ivChartData) = 1

\* The catalog entry with the given name.
MaterialNamed(name) ==
    CHOOSE m \in {materials[k] : k \in DOMAIN materials} : m.name = name

\* C22: in every line of the CSV the Work_Function_eV field is the work
\* function of the material named in the line's Material field.
C22_WorkFunctionOfRecordMaterial ==
    output.download =>
        \A i \in 2 .. Len(output.csvContent) :
            LET row == output.csvContent[i]
            IN  row[3] = ToFixed(MaterialNamed(row[2]).workFunction, 2, 6)

\* C23: a step appends a record only if it switches the light on or moves
\* the voltage slider while the light is on, and then exactly one; a step
\* that leaves the light off, or that changes material, wavelength, intensity
\* or area, appends none; resetExperiment leaves the light off and the ledger
\* empty.
C23_AppendOnlyWithLightOn ==
    [][ /\ Len(experimentData') > Len(experimentData) =>
              /\ Len(experimentData') = Len(experimentData) + 1
              /\ state'.isLightOn
              /\ state.isLightOn =>
                    state' = [state EXCEPT
                                 !.voltage = state'.voltage,
                                 !.measurementCount = state.measurementCount + 1]
        /\ (~state.isLightOn /\ state'.isLightOn) =>
              Len(experimentData') = Len(experimentData) + 1
        /\ (state.isLightOn /\ state'.isLightOn
                /\ state'.voltage # state.voltage) =>
              Len(experimentData') = Len(experimentData) + 1
        /\ ~state'.isLightOn => Len(experimentData') <= Len(experimentData)
        /\ afterReset'.runs > 0 =>
              ~state'.isLightOn /\ Len(experimentData') = 0 ]_vars

\* C23 witness: after measurements and a reset the voltage slider was moved
\* with the light still off, and the ledger is still empty.
C23_Witness ==
    /\ now > 0
    /\ afterReset.runs = 0
    /\ ~state.isLightOn
    /\ state.voltage # 0
    /\ state.measurementCount = 0
    /\ Len(experimentData) = 0

\* s is a suffix of t.
IsSuffix(s, t) ==
    /\ Len(s) <= Len(t)
    /\ s = SubSeq(t, Len(t) - Len(s) + 1, Len(t))

\* C24: a step that empties a chart with points on it and is not the reset
\* leaves the records and the counter as they are, and after every step the
\* I-V points are a suffix of the (voltage, mean) pairs of the ledger and no
\* more than the counter counts.
C24_ClearGraphKeepsLedger ==
    [][ /\ IsSuffix(ivChartData', IvPairs(experimentData'))
        /\ Len(ivChartData') <= state'.measurementCount
        /\ \/ ivChartData' # <<>>
           \/ ivChartData = <<>>
           \/ afterReset'.runs > 0
           \/ /\ experimentData' = experimentData
              /\ state'.measurementCount = state.measurementCount ]_vars

\* C24 witness: the chart was cleared after the first of two measurements
\* and holds the point of the second only.
C24_Witness ==
    /\ Len(experimentData) = 2
    /\ state.measurementCount = 2
    /\ Len(ivChartData) = 1
    /\ ivChartData[1].x = experimentData[2].voltage
    /\ ivChartData[1].x # experimentData[1].voltage

=============================================================================
